---- MODULE Spec2Model ----
(***************************************************************************)
(* A model of vLLMClient, graph_of_thoughts/language_models/vllm_client.py: *)
(* query() with its response cache, its single-response path and its       *)
(* batch-shrinking loop, and chat() with its backoff retry and its usage    *)
(* accounting.  The OpenAI client (client.chat.completions.create) is the   *)
(* environment: a stub that answers a request for n choices with a         *)
(* response of n choices, or raises.  time.sleep and the logger change no   *)
(* state and are left out.                                                  *)
(***************************************************************************)
EXTENDS Integers, Sequences, FiniteSets, TLC

\* Bounds of the model.
MaxCount == 5      \* the largest num_responses of a behaviour that makes one call
MaxCalls == 2      \* how many query() calls a behaviour of several calls makes
SeqCount == 2      \* the largest num_responses of a behaviour of several calls

\* backoff.on_exception(..., max_tries=6)
MaxTries == 6

Prompts == {"p", "q"}
Counts == 1..MaxCount

\* The workloads: one call of up to MaxCount responses, or up to MaxCalls
\* calls of up to SeqCount responses each.
Scopes == {[calls |-> 1, count |-> MaxCount], [calls |-> MaxCalls, count |-> SeqCount]}

\* What create() can raise: an OpenAIError (retried by backoff) or any other
\* Exception (not retried by backoff).
ErrorKinds == {"OpenAIError", "Exception"}

\* response.usage: absent, or a record of prompt_tokens and completion_tokens.
UsageOpt ==
    {[present |-> FALSE, p |-> 0, c |-> 0],
     [present |-> TRUE, p |-> 1, c |-> 2]}

\* (prompt_token_cost, response_token_cost) of the configuration section.
CostRates == {<<1, 2>>}

\* The transport stubs: "free" may succeed or fail on every create(); "cap"
\* fails exactly the requests for more than T choices (T = 0 fails every
\* request, T = MaxCount fails none).
Stubs == {[kind |-> "free", T |-> 0]} \cup {[kind |-> "cap", T |-> t] : t \in 0..MaxCount}

VARIABLES
    cache,               \* self.cache
    response_cache,      \* self.response_cache: prompt -> value, NoValue when absent
    prompt_tokens,       \* self.prompt_tokens
    completion_tokens,   \* self.completion_tokens
    cost,                \* self.cost, in thousandths (the code divides the tokens by 1000.0)
    prompt_token_cost,   \* self.prompt_token_cost
    response_token_cost, \* self.response_token_cost
    stub,                \* the transport the client talks to
    scope,               \* the workload of this behaviour
    pc,                  \* "idle", "loop" (at the while of query), "chat" (in chat, at create)
    calls,               \* query() calls made so far
    query,               \* argument query of the current (or last) call
    count,               \* argument num_responses of the current (or last) call, as passed
    num_responses,       \* local num_responses: the choices still to obtain
    next_try,            \* local next_try: the batch size of the next attempt
    total_num_attempts,  \* local total_num_attempts: the attempt budget left
    response,            \* local response of the multi-response path: the list so far
    chat_n,              \* argument num_responses of the chat() in progress
    tries,               \* create() invocations of the chat() in progress
    outcome,             \* how the last call ended
    log,                 \* history: the chat() calls of the current call, in order
    texts,               \* the last result of get_response_texts on the returned value
    returned,            \* history: prompt -> the value the last completed call returned for it
    sumP,                \* history: sum of usage.prompt_tokens over successful create()s
    sumC                 \* history: sum of usage.completion_tokens over successful create()s

vars == <<cache, response_cache, prompt_tokens, completion_tokens, cost,
          prompt_token_cost, response_token_cost, stub, scope, pc, calls, query, count,
          num_responses, next_try, total_num_attempts, response, chat_n, tries,
          outcome, texts, log, returned, sumP, sumC>>

config == <<cache, prompt_token_cost, response_token_cost, stub, scope>>
usage == <<prompt_tokens, completion_tokens, cost, sumP, sumC>>
locals == <<num_responses, next_try, total_num_attempts, response>>

----------------------------------------------------------------------------
\* Values

\* The value a call returns: one ChatCompletion (count == 1) or a list of them.
Single(r) == [shape |-> "single", responses |-> <<r>>]
List(s) == [shape |-> "list", responses |-> s]
NoValue == [shape |-> "none", responses |-> <<>>]

RECURSIVE SumChoices(_)
SumChoices(s) == IF s = <<>> THEN 0 ELSE Head(s).n + SumChoices(Tail(s))

\* len(choices) summed over the responses of a value.
Choices(v) == SumChoices(v.responses)

RECURSIVE NumFailed(_)
NumFailed(l) == IF l = <<>> THEN 0 ELSE (IF Head(l).ok THEN 0 ELSE 1) + NumFailed(Tail(l))

NumSucceeded(l) == Len(l) - NumFailed(l)

Returned(v, h) == [kind |-> "return", value |-> v, hit |-> h, error |-> "none"]
Raised(e) == [kind |-> "raise", value |-> NoValue, hit |-> FALSE, error |-> e]
NoOutcome == [kind |-> "none", value |-> NoValue, hit |-> FALSE, error |-> "none"]

\* choice.message.content of the i-th choice of response r: the server's text,
\* one distinct text per choice of each response.
ChoiceText(r, i) == <<r.call, r.seq, i>>

\* [choice.message.content for choice in response.choices]
ResponseTexts(r) == [i \in 1..r.n |-> ChoiceText(r, i)]

\* [choice.message.content for response in query_response for choice in response.choices]
RECURSIVE Flatten(_)
Flatten(s) == IF s = <<>> THEN <<>> ELSE ResponseTexts(Head(s)) \o Flatten(Tail(s))

\* Faulty variant: a list is read as if it were its first response
get_response_texts_first(v) ==
    IF v.responses = <<>> THEN <<>> ELSE ResponseTexts(v.responses[1])

\* get_response_texts(query_response): isinstance(query_response, list) or not
get_response_texts(v) ==
    IF v.shape = "list" THEN Flatten(v.responses) ELSE ResponseTexts(v.responses[1])

NoTexts == [called |-> FALSE, list |-> <<>>]

----------------------------------------------------------------------------
\* The expressions of query() and chat()

\* min(num_responses, next_try)
Min(a, b) == IF a <= b THEN a ELSE b

\* if self.cache and query in self.response_cache
CacheHit(p) == cache /\ response_cache[p] # NoValue

\* Faulty variant: the result is never stored
CacheStoreSkipped(p, v) == response_cache

\* Faulty variant: an empty result is not stored
CacheStoreNonEmpty(p, v) ==
    IF cache /\ v.responses # <<>> THEN [response_cache EXCEPT ![p] = v] ELSE response_cache

\* if self.cache: self.response_cache[query] = response
CacheStore(p, v) == IF cache THEN [response_cache EXCEPT ![p] = v] ELSE response_cache

\* Faulty variant: the single-response path is never taken
IsSingleNever(n) == n = 0

\* if num_responses == 1
IsSingle(n) == n = 1

\* Faulty variant: the budget is twice the request
AttemptBudgetDouble(n) == 2 * n

\* Faulty variant: the budget is one short of the request
AttemptBudgetShort(n) == n - 1

\* total_num_attempts = num_responses
AttemptBudget(n) == n

\* Faulty variant: the loop ignores the attempt budget
LoopCondNoBudget == num_responses > 0

\* while num_responses > 0 and total_num_attempts > 0
LoopCond == num_responses > 0 /\ total_num_attempts > 0

\* Faulty variant: a success counts as one choice whatever the batch size
RemainingOffByOne(rem, nt) == rem - 1

\* num_responses -= next_try
RemainingAfterSuccess(rem, nt) == rem - nt

\* Faulty variant: the batch size is not clipped to what remains
NextAfterSuccessNoMin(rem, nt) == nt

\* next_try = min(num_responses, next_try)
NextAfterSuccess(rem, nt) == Min(rem, nt)

\* Faulty variant: the halving rounds down
NextAfterFailureFloor(nt) == nt \div 2

\* next_try = (next_try + 1) // 2
NextAfterFailure(nt) == (nt + 1) \div 2

\* Faulty variant: a failure does not spend an attempt
AttemptsNotSpent(a) == a

\* total_num_attempts -= 1
AttemptsAfterFailure(a) == a - 1

\* Faulty variant: the handler catches OpenAIError only
HandlerCatchesOpenAIOnly(e) == e = "OpenAIError"

\* except Exception as e
HandlerCatches(e) == e \in {"OpenAIError", "Exception"}

\* Faulty variant: one try more than max_tries
RetryOneMore(e, t, timeUp) == e = "OpenAIError" /\ t <= MaxTries /\ ~timeUp

\* backoff.on_exception(backoff.expo, OpenAIError, max_time=10, max_tries=6):
\* after the t-th failed try, try again iff the error is an OpenAIError, fewer
\* than max_tries tries were made and max_time has not elapsed.
Retry(e, t, timeUp) == e = "OpenAIError" /\ t < MaxTries /\ ~timeUp

\* Faulty variant: the counter is overwritten, not added to
AddTokensOverwrite(old, reported) == reported

\* self.prompt_tokens += response.usage.prompt_tokens (and completion_tokens)
AddTokens(old, reported) == old + reported

\* self.cost = prompt_token_cost * prompt_tokens_k + response_token_cost * completion_tokens_k
CostOf(pt, ct) == prompt_token_cost * pt + response_token_cost * ct

\* The stub's answer to create(n=n).
StubSucceeds(n) == stub.kind = "free" \/ n <= stub.T
StubFails(n) == stub.kind = "free" \/ n > stub.T

----------------------------------------------------------------------------
\* Construction

\* AbstractLanguageModel.__init__: the cache flag, an empty response cache and
\* zeroed usage counters.
BaseInit ==
    /\ cache \in BOOLEAN
    /\ response_cache = [p \in Prompts |-> NoValue]
    /\ prompt_tokens = 0
    /\ completion_tokens = 0
    /\ cost = 0

Init ==
    /\ BaseInit
    /\ \E r \in CostRates : prompt_token_cost = r[1] /\ response_token_cost = r[2]
    /\ scope \in Scopes
    /\ stub \in {s \in Stubs : s.T <= scope.count}
    /\ pc = "idle"
    /\ calls = 0
    /\ query = "p"
    /\ count = 1
    /\ num_responses = 0
    /\ next_try = 0
    /\ total_num_attempts = 0
    /\ response = <<>>
    /\ chat_n = 0
    /\ tries = 0
    /\ outcome = NoOutcome
    /\ texts = NoTexts
    /\ log = <<>>
    /\ returned = [p \in Prompts |-> NoValue]
    /\ sumP = 0
    /\ sumC = 0

----------------------------------------------------------------------------
\* query()

\* A call answered from the cache.
QueryHit(p, n) ==
    /\ pc = "idle"
    /\ calls < scope.calls
    /\ n <= scope.count
    /\ CacheHit(p)
    /\ calls' = calls + 1
    /\ query' = p
    /\ count' = n
    /\ num_responses' = n
    /\ next_try' = 0
    /\ total_num_attempts' = 0
    /\ response' = <<>>
    /\ log' = <<>>
    /\ texts' = NoTexts
    /\ outcome' = Returned(response_cache[p], TRUE)
    /\ returned' = [returned EXCEPT ![p] = response_cache[p]]
    /\ UNCHANGED <<config, usage, response_cache, pc, chat_n, tries>>

\* A cache miss with num_responses == 1: query calls chat(..., 1).
QuerySingle(p, n) ==
    /\ pc = "idle"
    /\ calls < scope.calls
    /\ n <= scope.count
    /\ ~CacheHit(p)
    /\ IsSingle(n)
    /\ calls' = calls + 1
    /\ query' = p
    /\ count' = n
    /\ num_responses' = n
    /\ next_try' = 0
    /\ total_num_attempts' = 0
    /\ response' = <<>>
    /\ log' = <<>>
    /\ texts' = NoTexts
    /\ outcome' = NoOutcome
    /\ pc' = "chat"
    /\ chat_n' = n
    /\ tries' = 0
    /\ UNCHANGED <<config, usage, response_cache, returned>>

\* A cache miss with num_responses != 1: query sets up the loop.
QueryMulti(p, n) ==
    /\ pc = "idle"
    /\ calls < scope.calls
    /\ n <= scope.count
    /\ ~CacheHit(p)
    /\ ~IsSingle(n)
    /\ calls' = calls + 1
    /\ query' = p
    /\ count' = n
    /\ num_responses' = n
    /\ next_try' = n
    /\ total_num_attempts' = AttemptBudget(n)
    /\ response' = <<>>
    /\ log' = <<>>
    /\ texts' = NoTexts
    /\ outcome' = NoOutcome
    /\ pc' = "loop"
    /\ UNCHANGED <<config, usage, response_cache, returned, chat_n, tries>>

\* Faulty variant: a failed attempt is counted against the remaining choices too
AttemptFailedDropsRemaining ==
    /\ next_try' = NextAfterFailure(next_try)
    /\ total_num_attempts' = AttemptsAfterFailure(total_num_attempts)
    /\ num_responses' = num_responses - next_try
    /\ log' = Append(log, [size |-> next_try, ok |-> FALSE,
                           remaining |-> num_responses',
                           next |-> NextAfterFailure(next_try)])
    /\ pc' = "loop"
    /\ UNCHANGED <<response, outcome, returned, response_cache>>

\* The except branch of the loop: halve the batch size, sleep, spend one attempt.
AttemptFailed ==
    /\ next_try' = NextAfterFailure(next_try)
    /\ total_num_attempts' = AttemptsAfterFailure(total_num_attempts)
    /\ log' = Append(log, [size |-> next_try, ok |-> FALSE,
                           remaining |-> num_responses,
                           next |-> NextAfterFailure(next_try)])
    /\ pc' = "loop"
    /\ UNCHANGED <<num_responses, response, outcome, returned, response_cache>>

\* The while condition holds: assert next_try > 0, then call chat(..., next_try).
\* A failing assertion raises inside the try and lands in the except branch.
LoopAttempt ==
    /\ pc = "loop"
    /\ LoopCond
    /\ IF next_try > 0
       THEN /\ pc' = "chat"
            /\ chat_n' = next_try
            /\ tries' = 0
            /\ UNCHANGED <<locals, outcome, log, returned, response_cache>>
       ELSE /\ AttemptFailed
            /\ UNCHANGED <<chat_n, tries>>
    /\ UNCHANGED <<config, usage, calls, query, count, texts>>

\* The while condition fails: store in the cache and return the list.
LoopExit ==
    /\ pc = "loop"
    /\ ~LoopCond
    /\ response_cache' = CacheStore(query, List(response))
    /\ outcome' = Returned(List(response), FALSE)
    /\ returned' = [returned EXCEPT ![query] = List(response)]
    /\ pc' = "idle"
    /\ UNCHANGED <<config, usage, calls, query, count, locals, chat_n, tries, log, texts>>

----------------------------------------------------------------------------
\* chat()

\* create() returns a response with chat_n choices; chat updates the usage
\* counters and returns it to query, which goes on to its next statement.
CreateSuccess(u) ==
    /\ pc = "chat"
    /\ StubSucceeds(chat_n)
    /\ LET res == [n |-> chat_n, call |-> calls, seq |-> Len(log) + 1]
           pt == IF u.present THEN AddTokens(prompt_tokens, u.p) ELSE prompt_tokens
           ct == IF u.present THEN AddTokens(completion_tokens, u.c) ELSE completion_tokens
       IN  /\ prompt_tokens' = pt
           /\ completion_tokens' = ct
           /\ cost' = IF u.present THEN CostOf(pt, ct) ELSE cost
           /\ sumP' = sumP + u.p
           /\ sumC' = sumC + u.c
           /\ IF IsSingle(count)
              THEN /\ response_cache' = CacheStore(query, Single(res))
                   /\ outcome' = Returned(Single(res), FALSE)
                   /\ returned' = [returned EXCEPT ![query] = Single(res)]
                   /\ log' = Append(log, [size |-> chat_n, ok |-> TRUE,
                                          remaining |-> 0, next |-> 0])
                   /\ pc' = "idle"
                   /\ UNCHANGED locals
              ELSE /\ response' = Append(response, res)
                   /\ num_responses' = RemainingAfterSuccess(num_responses, next_try)
                   /\ next_try' = NextAfterSuccess(num_responses', next_try)
                   /\ log' = Append(log, [size |-> chat_n, ok |-> TRUE,
                                          remaining |-> num_responses',
                                          next |-> next_try'])
                   /\ pc' = "loop"
                   /\ UNCHANGED <<total_num_attempts, outcome, returned, response_cache>>
    /\ tries' = 0
    /\ UNCHANGED <<config, calls, query, count, chat_n, texts>>

\* create() raises e; backoff tries again or gives up and lets e out of chat.
\* On the single path e leaves query; in the loop the except branch takes it.
CreateFail(e, timeUp) ==
    /\ pc = "chat"
    /\ StubFails(chat_n)
    /\ IF Retry(e, tries + 1, timeUp)
       THEN /\ tries' = tries + 1
            /\ UNCHANGED <<pc, locals, outcome, log, returned, response_cache>>
       ELSE /\ tries' = 0
            /\ IF IsSingle(count) \/ ~HandlerCatches(e)
               THEN /\ outcome' = Raised(e)
                    /\ log' = Append(log, [size |-> chat_n, ok |-> FALSE,
                                           remaining |-> num_responses,
                                           next |-> next_try])
                    /\ pc' = "idle"
                    /\ UNCHANGED <<locals, returned, response_cache>>
               ELSE AttemptFailed
    /\ UNCHANGED <<config, usage, calls, query, count, chat_n, texts>>

----------------------------------------------------------------------------
\* get_response_texts()

\* The caller extracts the texts of the value the last call returned.
GetResponseTexts ==
    /\ pc = "idle"
    /\ outcome.kind = "return"
    /\ ~texts.called
    /\ texts' = [called |-> TRUE, list |-> get_response_texts(outcome.value)]
    /\ UNCHANGED <<config, usage, response_cache, pc, calls, query, count, locals,
                   chat_n, tries, outcome, log, returned>>

----------------------------------------------------------------------------
Next ==
    \/ \E p \in Prompts, n \in Counts : QueryHit(p, n)
    \/ \E p \in Prompts, n \in Counts : QuerySingle(p, n)
    \/ \E p \in Prompts, n \in Counts : QueryMulti(p, n)
    \/ LoopAttempt
    \/ LoopExit
    \/ \E u \in UsageOpt : CreateSuccess(u)
    \/ \E e \in ErrorKinds, timeUp \in BOOLEAN : CreateFail(e, timeUp)
    \/ GetResponseTexts

Spec == Init /\ [][Next]_vars

\* The loop and chat run to completion once a call is made: every transport
\* call returns, and query is synchronous.  Calls themselves are the caller's.
FairSpec ==
    /\ Spec
    /\ WF_vars(LoopAttempt)
    /\ WF_vars(LoopExit)
    /\ WF_vars((\E u \in UsageOpt : CreateSuccess(u))
                 \/ (\E e \in ErrorKinds, timeUp \in BOOLEAN : CreateFail(e, timeUp)))

----------------------------------------------------------------------------
\* Properties

\* A call has finished (returned or raised).
Done == pc = "idle" /\ outcome.kind # "none"

\* The current (or last) call was not answered from the cache.
Miss == calls > 0 /\ ~outcome.hit

\* The stub that fails no request of this workload, and the one that fails all.
AlwaysSucceeds == stub.kind = "cap" /\ stub.T = scope.count
NeverSucceeds == stub.kind = "cap" /\ stub.T = 0

\* C1: with a transport that always succeeds, a call that misses the cache
\* returns exactly count choices, no attempt fails and the attempt budget of
\* the loop is never exhausted.
C1_ExactCount ==
    (AlwaysSucceeds /\ Miss) =>
        /\ outcome.kind # "raise"
        /\ NumFailed(log) = 0
        /\ Done => Choices(outcome.value) = count
        /\ count > 1 => total_num_attempts > 0

C1_Witness ==
    /\ AlwaysSucceeds /\ Miss /\ Done
    /\ count = MaxCount
    /\ Choices(outcome.value) = MaxCount

\* C2: in a call with count > 1 the attempt budget starts at count, loses
\* exactly 1 per failed attempt and nothing per success, never goes below 0,
\* and no attempt is made once it is 0; so at most count attempts fail.
C2_FailedAttemptsBounded ==
    (Miss /\ count > 1) =>
        /\ total_num_attempts = count - NumFailed(log)
        /\ total_num_attempts >= 0
        /\ NumFailed(log) <= count
        /\ pc = "chat" => total_num_attempts > 0

C2_Witness ==
    /\ Miss /\ Done
    /\ count = MaxCount
    /\ NumFailed(log) = count
    /\ NumSucceeded(log) > 0
    /\ total_num_attempts = 0

\* C3: a call with count > 1 never raises; when the budget is exhausted with
\* choices still missing it returns the list accumulated so far, which holds
\* fewer than count choices.
C3_NoFailurePropagates ==
    (calls > 0 /\ count > 1) =>
        /\ outcome.kind # "raise"
        /\ (Done /\ Miss /\ total_num_attempts = 0 /\ num_responses > 0) =>
              /\ outcome.kind = "return"
              /\ outcome.value = List(response)
              /\ Choices(outcome.value) < count

C3_Witness ==
    /\ Done /\ Miss /\ count > 1
    /\ total_num_attempts = 0 /\ num_responses > 0
    /\ outcome.kind = "return"
    /\ Len(outcome.value.responses) > 0

C3_WitnessEmpty ==
    /\ Done /\ Miss /\ count > 1
    /\ total_num_attempts = 0
    /\ outcome = Returned(List(<<>>), FALSE)

\* C4: with a transport that fails every call, a call with count == 1 that
\* misses the cache makes one chat call, for 1 choice, never enters the loop,
\* and ends by raising the transport's error: it returns nothing.
C4_SingleFailurePropagates ==
    (NeverSucceeds /\ Miss /\ count = 1) =>
        /\ pc # "loop"
        /\ pc = "chat" => (chat_n = 1 /\ log = <<>>)
        /\ Done => /\ outcome.kind = "raise"
                   /\ outcome.value = NoValue
                   /\ Len(log) = 1
                   /\ log[1].size = 1
                   /\ ~log[1].ok

C4_Witness ==
    /\ NeverSucceeds /\ Miss /\ count = 1 /\ Done
    /\ outcome.kind = "raise"

\* C5: with the cache enabled, a call for a prompt for which an earlier call
\* has returned is answered at once with that same value, makes no transport
\* call and leaves the usage counters and the cache unchanged.
C5_CachedCallIdentical ==
    [][(cache /\ pc = "idle" /\ calls' = calls + 1 /\ returned[query'] # NoValue) =>
          /\ pc' = "idle"
          /\ outcome'.kind = "return"
          /\ outcome'.value = returned[query']
          /\ log' = <<>>
          /\ UNCHANGED <<prompt_tokens, completion_tokens, cost, response_cache>>]_vars

C5_Witness ==
    /\ cache /\ Done /\ calls = 2
    /\ outcome.kind = "return"
    /\ log = <<>>
    /\ outcome.value = returned[query]
    /\ Choices(outcome.value) > 0

\* C6: the token counters equal the sums of the usage the successful
\* transport calls reported, and cost is the rate-weighted sum of the counters
\* (cost is kept in thousandths, so the division by 1000 is exact).
C6_UsageAccounting ==
    /\ prompt_tokens = sumP
    /\ completion_tokens = sumC
    /\ cost = prompt_token_cost * prompt_tokens + response_token_cost * completion_tokens

C6_Witness ==
    /\ prompt_tokens = 2 /\ completion_tokens = 4
    /\ prompt_token_cost = 1 /\ response_token_cost = 2
    /\ cost = 10
    /\ NumSucceeded(log) = 3
    /\ NumFailed(log) > 0

\* The scenario of C7 and C8: query(prompt, 5) against a transport that fails
\* every request for more than 2 choices.
Scenario == stub.kind = "cap" /\ stub.T = 2 /\ count = 5 /\ Miss

ExpectedTrace ==
    << [size |-> 5, ok |-> FALSE, remaining |-> 5, next |-> 3],
       [size |-> 3, ok |-> FALSE, remaining |-> 5, next |-> 2],
       [size |-> 2, ok |-> TRUE, remaining |-> 3, next |-> 2],
       [size |-> 2, ok |-> TRUE, remaining |-> 1, next |-> 1],
       [size |-> 1, ok |-> TRUE, remaining |-> 0, next |-> 0] >>

\* C7: in the scenario the attempts are, in order, 5 (fails), 3 (fails),
\* 2 (succeeds, 3 remain), 2 (succeeds, 1 remains), 1 (succeeds, 0 remain);
\* the result holds 5 choices from 3 successful transport calls.
C7_ScenarioTrace ==
    Scenario =>
        /\ Len(log) <= Len(ExpectedTrace)
        /\ \A i \in 1..Len(log) :
              /\ log[i].size = ExpectedTrace[i].size
              /\ log[i].ok = ExpectedTrace[i].ok
              /\ log[i].remaining = ExpectedTrace[i].remaining
        /\ Done => /\ Len(log) = Len(ExpectedTrace)
                   /\ outcome.kind = "return"
                   /\ Choices(outcome.value) = 5
                   /\ Len(outcome.value.responses) = 3
                   /\ NumSucceeded(log) = 3

C7_Witness ==
    /\ Scenario /\ Done
    /\ log = ExpectedTrace
    /\ Choices(outcome.value) = 5

\* C8 as stated: in the scenario 3 attempts are recorded as failures when the
\* call returns.
C8_ThreeFailures ==
    (Scenario /\ Done) =>
        /\ NumFailed(log) = 3
        /\ count - total_num_attempts = 3

\* C8, amended: in the scenario exactly 2 attempts are recorded as failures
\* when the call returns (the attempts of size 5 and 3); the attempt budget
\* has been decremented twice.
C8_TwoFailures ==
    (Scenario /\ Done) =>
        /\ NumFailed(log) = 2
        /\ count - total_num_attempts = 2

C8_Witness ==
    /\ Scenario /\ Done
    /\ total_num_attempts = 3
    /\ NumFailed(log) = 2

\* C9: the value a call returns has the shape its own count dictates: one
\* response for count == 1, a list whose choices total at most count for
\* count > 1.
C9_ShapeMatchesCount ==
    (Done /\ outcome.kind = "return") =>
        /\ count = 1 => outcome.value.shape = "single"
        /\ count > 1 => (outcome.value.shape = "list" /\ Choices(outcome.value) <= count)

\* C10: a call with count > 1 terminates; it ends with nothing remaining or
\* no attempt left; every attempt that comes back to the loop has either
\* decreased the remaining choices (a success) or the attempts left (a failure).
C10_Terminates ==
    /\ (count > 1 /\ pc # "idle") ~> (pc = "idle")
    /\ []((Done /\ Miss /\ count > 1) => (num_responses = 0 \/ total_num_attempts = 0))
    /\ [][(pc = "chat" /\ pc' = "loop") =>
             \/ num_responses' < num_responses /\ total_num_attempts' = total_num_attempts
             \/ num_responses' = num_responses /\ total_num_attempts' < total_num_attempts]_vars

C10_Witness ==
    /\ Done /\ Miss /\ count = MaxCount
    /\ num_responses = 0
    /\ NumFailed(log) = MaxCount - 1
    /\ NumSucceeded(log) = MaxCount

\* The offset of response j of a value in the flat list of its choices.
Offset(v, j) == SumChoices(SubSeq(v.responses, 1, j - 1))

\* C11: get_response_texts returns one text per choice: as many texts as the
\* responses hold choices, in response order and, within a response, in
\* choice order; for a single response, its choices in order.
C11_TextsFlatLossless ==
    texts.called =>
        /\ Len(texts.list) = Choices(outcome.value)
        /\ \A j \in 1..Len(outcome.value.responses) :
              \A i \in 1..outcome.value.responses[j].n :
                 texts.list[Offset(outcome.value, j) + i]
                    = ChoiceText(outcome.value.responses[j], i)

C11_Witness ==
    /\ texts.called
    /\ outcome.value.shape = "list"
    /\ Len(outcome.value.responses) = 3
    /\ Len(texts.list) = MaxCount
    /\ outcome.value.responses[2].n = 2

C11_WitnessSingle ==
    /\ texts.called
    /\ outcome.value.shape = "single"
    /\ Len(texts.list) = 1

\* An attempt of the loop comes back failed, or comes back with a response.
FailureStep == pc = "chat" /\ pc' = "loop" /\ response' = response
SuccessStep == pc = "chat" /\ pc' = "loop" /\ response' # response

\* C12: the batch size after a failed attempt is ceil(previous / 2), at least
\* 1 and never larger than before; the attempt that follows uses it, so over
\* consecutive failures the size never grows and stays 1 once it is 1.
C12_HalvingOnFailure ==
    /\ [][FailureStep =>
             /\ 2 * next_try' >= next_try
             /\ 2 * next_try' <= next_try + 1
             /\ next_try' >= 1
             /\ next_try' <= next_try
             /\ (next_try = 1 => next_try' = 1)]_vars
    /\ []((pc = "chat" /\ count > 1) => chat_n = next_try)

C12_Witness ==
    /\ Len(log) >= 5
    /\ log[1].size = 5 /\ ~log[1].ok
    /\ log[2].size = 3 /\ ~log[2].ok
    /\ log[3].size = 2 /\ ~log[3].ok
    /\ log[4].size = 1 /\ ~log[4].ok
    /\ log[5].size = 1 /\ ~log[5].ok
    /\ next_try = 1

\* C13: after a successful attempt the remaining choices are reduced by the
\* batch size and the next batch size is min(remaining, previous batch
\* size), so it is never larger than before the success.
C13_ClipOnSuccess ==
    [][SuccessStep =>
          /\ num_responses' = num_responses - next_try
          /\ next_try' = (IF num_responses' < next_try THEN num_responses' ELSE next_try)
          /\ next_try' <= next_try]_vars

C13_Witness ==
    /\ pc = "loop"
    /\ Len(log) >= 2
    /\ log[Len(log)].ok
    /\ log[Len(log)].size = 2
    /\ next_try = 1
    /\ num_responses = 1

\* C14: in a call with count > 1 every attempt is for at least 1 choice: the
\* batch size is positive whenever the loop goes on and in every chat call,
\* and the loop never fails an attempt by its own assertion (no step from the
\* head of the loop back to it).
C14_BatchSizePositive ==
    /\ []((Miss /\ count > 1) =>
            /\ (pc = "loop" /\ num_responses > 0 /\ total_num_attempts > 0) => next_try >= 1
            /\ pc = "chat" => chat_n >= 1
            /\ \A i \in 1..Len(log) : log[i].size >= 1)
    /\ [][pc = "loop" => pc' # "loop"]_vars

C14_Witness ==
    /\ Miss /\ count > 1
    /\ pc = "loop"
    /\ next_try = 1
    /\ num_responses > 1
    /\ total_num_attempts = 1
    /\ NumSucceeded(log) >= 1

\* A failed attempt of the loop has just been recorded.
FailureRecorded ==
    /\ count > 1
    /\ Len(log') = Len(log) + 1
    /\ ~log'[Len(log')].ok

\* C15: a failed attempt of the loop decrements the attempts left by exactly
\* 1 and leaves the remaining choices, the responses accumulated so far, the
\* usage counters and the cache unchanged.
C15_FailureFrame ==
    [][FailureRecorded =>
          /\ total_num_attempts' = total_num_attempts - 1
          /\ UNCHANGED <<num_responses, response, prompt_tokens, completion_tokens,
                         cost, response_cache>>]_vars

C15_Witness ==
    /\ pc = "loop" /\ count > 1
    /\ cache /\ query = "q" /\ response_cache["p"] # NoValue
    /\ response # <<>>
    /\ prompt_tokens > 0
    /\ ~log[Len(log)].ok
    /\ num_responses = 1

\* The attempts of the current call: those that came back and the one in flight.
Attempts == Len(log) + (IF pc = "chat" THEN 1 ELSE 0)

\* C16 as stated: a call with count > 1 makes at most count attempts,
\* successful and failed together.
C16_AttemptsBoundedByCount ==
    (Miss /\ count > 1) => Attempts <= count

\* C16, amended: a call with count > 1 makes at most 2 * count - 1 attempts:
\* at most count failed ones and at most count successful ones, and not count
\* of both.
C16_AttemptsBoundedByTwice ==
    (Miss /\ count > 1) =>
        /\ Attempts <= 2 * count - 1
        /\ NumFailed(log) <= count
        /\ NumSucceeded(log) <= count

C16_Witness ==
    /\ Miss /\ Done
    /\ count = MaxCount
    /\ NumFailed(log) = count
    /\ NumSucceeded(log) = count - 1

\* C17: with the cache enabled, every list a count > 1 call returns is stored
\* under its prompt, degraded or not; a later call for a stored prompt returns
\* the stored value at once, with no transport call, whatever the transport
\* would now answer; a count == 1 call that raises leaves the cache as it was,
\* with no entry for its prompt.
C17_DegradedResultCached ==
    /\ []((cache /\ Done /\ Miss /\ count > 1) =>
             /\ outcome.kind = "return"
             /\ response_cache[query] = outcome.value)
    /\ [][(cache /\ pc = "idle" /\ calls' = calls + 1 /\ response_cache[query'] # NoValue) =>
             /\ pc' = "idle"
             /\ outcome' = Returned(response_cache[query'], TRUE)
             /\ log' = <<>>
             /\ response_cache' = response_cache]_vars
    /\ [][outcome'.kind = "raise" => response_cache' = response_cache]_vars
    /\ []((Done /\ count = 1 /\ outcome.kind = "raise") => response_cache[query] = NoValue)

C17_Witness ==
    /\ cache /\ Done /\ calls = 2
    /\ stub.kind = "free"
    /\ outcome.hit
    /\ outcome.value.shape = "list"
    /\ Choices(outcome.value) = 1
    /\ response_cache[query] = outcome.value

C17_WitnessEmpty ==
    /\ cache /\ Done /\ calls = 2
    /\ outcome.hit
    /\ outcome.value = List(<<>>)

C17_WitnessRaise ==
    /\ cache /\ Done /\ count = 1
    /\ outcome.kind = "raise"
    /\ response_cache[query] = NoValue

\* C18: one attempt of the loop is one chat call of at most max_tries create
\* calls; a create call that fails and is retried records nothing; when chat
\* gives up, the loop records one failed attempt (one halving, one attempt
\* spent) and query does not raise; when a create call succeeds, the loop
\* records one success and the usage counters take one response's usage.
C18_InnerRetry ==
    /\ [](pc = "chat" => tries + 1 <= MaxTries)
    /\ [][(pc = "chat" /\ pc' = "chat") =>
             /\ tries' = tries + 1
             /\ UNCHANGED <<locals, log, outcome, prompt_tokens, completion_tokens,
                            cost, response_cache>>]_vars
    /\ [][(count > 1 /\ pc = "chat" /\ pc' # "chat") =>
             /\ pc' = "loop"
             /\ outcome'.kind # "raise"
             /\ Len(log') = Len(log) + 1
             /\ \/ /\ ~log'[Len(log')].ok
                   /\ response' = response
                   /\ total_num_attempts' = total_num_attempts - 1
                   /\ 2 * next_try' \in {next_try, next_try + 1}
                   /\ UNCHANGED <<prompt_tokens, completion_tokens, cost>>
                \/ /\ log'[Len(log')].ok
                   /\ Len(response') = Len(response) + 1
                   /\ total_num_attempts' = total_num_attempts
                   /\ \E u \in UsageOpt :
                         /\ prompt_tokens' = prompt_tokens + u.p
                         /\ completion_tokens' = completion_tokens + u.c]_vars

C18_Witness ==
    /\ pc = "chat" /\ count > 1
    /\ tries = MaxTries - 1
    /\ NumFailed(log) = 2
    /\ total_num_attempts = count - 2
    /\ NumSucceeded(log) = 1
    /\ prompt_tokens = 1

\* C19: whenever the loop makes an attempt, 1 <= batch size <= remaining;
\* remaining is never negative; the choices collected plus the remaining ones
\* are count; the returned list holds at most count choices.
C19_BatchWithinRemaining ==
    (Miss /\ count > 1) =>
        /\ (pc = "loop" /\ num_responses > 0 /\ total_num_attempts > 0) =>
              (1 <= next_try /\ next_try <= num_responses)
        /\ pc = "chat" => (1 <= chat_n /\ chat_n <= num_responses)
        /\ num_responses >= 0
        /\ SumChoices(response) + num_responses = count
        /\ Done => Choices(outcome.value) <= count

C19_Witness ==
    /\ Miss /\ count = MaxCount
    /\ pc = "chat"
    /\ chat_n = num_responses
    /\ chat_n = 2
    /\ Len(response) = 1
    /\ response[1].n = 3

\* C20: against the transport that fails exactly the requests for more than
\* T choices, T >= 1, a call with count > 1 never exhausts its attempt
\* budget and returns exactly count choices.
C20_CapacityNeverDegrades ==
    (stub.kind = "cap" /\ stub.T >= 1 /\ Miss /\ count > 1) =>
        /\ total_num_attempts > 0
        /\ outcome.kind # "raise"
        /\ Done => (outcome.kind = "return" /\ Choices(outcome.value) = count)

C20_Witness ==
    /\ stub.kind = "cap" /\ stub.T = 1
    /\ Miss /\ Done
    /\ count = MaxCount
    /\ NumFailed(log) = 3
    /\ Choices(outcome.value) = count

====
